---- MODULE Spec2Model ----
(***************************************************************************)
(* Model of dags/src/transformation_task.py: transform_data reads the flat *)
(* record set raw.sales_raw, normalises it into six dimension tables and   *)
(* one fact table (pandas drop_duplicates / merge / reset_index), and      *)
(* loads the seven tables into the processed schema with                   *)
(* to_sql(if_exists='replace').                                            *)
(*                                                                         *)
(* A DataFrame is a sequence of records (one record per row, one field per *)
(* column); the RangeIndex 0..n-1 of a frame is the position 1..n minus 1. *)
(***************************************************************************)
EXTENDS Integers, Sequences, FiniteSets, TLC

\* Largest number of rows of raw.sales_raw explored.
MaxRows == 2

(***************************************************************************)
(* The input record set.                                                   *)
(***************************************************************************)

\* The thirteen columns of the frame after the rename (lines 46-62).
RequiredColumns ==
    {"retailer", "retailer_id", "invoice_date", "region", "state", "city",
     "product", "price_per_unit", "units_sold", "total_sales",
     "operating_profit", "operating_margin", "sales_method"}

\* One row of the example scenario; operating_margin is in percent.
BaseRow ==
    [retailer |-> "Foot Locker", retailer_id |-> "1185732",
     invoice_date |-> "2020-01-01", region |-> "East", state |-> "NY",
     city |-> "NYC", product |-> "Shoes", price_per_unit |-> 50,
     units_sold |-> 10, total_sales |-> 500, operating_profit |-> 200,
     operating_margin |-> 40, sales_method |-> "Online"]

\* Rows that vary the geography: the state name NY (and CA) can occur under
\* both regions, and a city name under both states.
GeoRows ==
    {[BaseRow EXCEPT !.region = rg, !.state = st, !.city = ct] :
        rg \in {"East", "West"}, st \in {"NY", "CA"}, ct \in {"NYC", "LA"}}

\* Rows that vary the product and its unit price (one name, two prices).
ProductRows ==
    {[BaseRow EXCEPT !.product = p[1], !.price_per_unit = p[2]] :
        p \in {<<"Shoes", 50>>, <<"Shoes", 55>>, <<"Hats", 20>>}}

\* Rows that vary the retailer (one retailer_id under two names).
RetailerRows ==
    {[BaseRow EXCEPT !.retailer_id = p[1], !.retailer = p[2]] :
        p \in {<<"1185732", "Foot Locker">>, <<"1185732", "Walmart">>,
               <<"1197831", "Walmart">>}}

\* Rows that vary the sales method, the date and the measures.
MethodRows ==
    {BaseRow,
     [BaseRow EXCEPT !.sales_method = "Outlet", !.invoice_date = "2020-01-02",
                     !.units_sold = 5, !.total_sales = 250,
                     !.operating_profit = 75, !.operating_margin = 30]}

Rows == GeoRows \cup ProductRows \cup RetailerRows \cup MethodRows

\* All record sets of at most MaxRows rows, the empty one included.
RecordSets == UNION {[1..n -> Rows] : n \in 0..MaxRows}

(***************************************************************************)
(* pandas primitives, over sequences of records.                           *)
(***************************************************************************)

\* The value pandas puts in the right-hand columns of an unmatched left row.
NaN == "NaN"

\* frame[[columns]] on one row.
Project(r, columns) == [c \in columns |-> r[c]]

\* frame[[columns]]
Select(frame, columns) ==
    [i \in 1..Len(frame) |-> Project(frame[i], columns)]

\* DataFrame.drop_duplicates(subset=subset), keep='first': a row is kept iff
\* no earlier row agrees with it on the subset; the order is kept.
DropDuplicates(frame, subset) ==
    LET first(i) == \A j \in 1..(i - 1) :
                        Project(frame[j], subset) # Project(frame[i], subset)
        RECURSIVE upto(_)
        upto(i) == IF i = 0 THEN << >>
                   ELSE IF first(i) THEN Append(upto(i - 1), frame[i])
                   ELSE upto(i - 1)
    IN  upto(Len(frame))

\* DataFrame.rename(columns={old: new}) on one row.
RenameRow(r, old, new) ==
    [c \in (DOMAIN r \ {old}) \cup {new} |-> IF c = new THEN r[old] ELSE r[c]]

\* DataFrame.rename(columns={old: new}, inplace=True)
Rename(frame, old, new) ==
    [i \in 1..Len(frame) |-> RenameRow(frame[i], old, new)]

\* AssignId without the + 1 of frame.index + 1.
AssignIdZeroBased(frame, id) ==
    [i \in 1..Len(frame) |-> (id :> (i - 1)) @@ frame[i]]

\* reset_index(drop=True) followed by frame[id] = frame.index + 1: the row at
\* 0-based index i-1 gets the key i.
AssignId(frame, id) ==
    [i \in 1..Len(frame) |-> (id :> i) @@ frame[i]]

\* The row a merge emits for left row l and right row r: a key column with
\* the same name on both sides appears once, any other column the two sides
\* share gets the suffixes _x and _y.
MergeRow(l, r, left_on, right_on) ==
    LET n == Len(left_on)
        shared == {left_on[k] : k \in {k \in 1..n : left_on[k] = right_on[k]}}
        clash == (DOMAIN l \cap DOMAIN r) \ shared
        lname(c) == IF c \in clash THEN c \o "_x" ELSE c
        rname(c) == IF c \in clash THEN c \o "_y" ELSE c
        lcols == {lname(c) : c \in DOMAIN l}
        rcols == {rname(c) : c \in DOMAIN r \ shared}
    IN  [c \in lcols \cup rcols |->
            IF c \in lcols
            THEN l[CHOOSE d \in DOMAIN l : lname(d) = c]
            ELSE r[CHOOSE d \in DOMAIN r \ shared : rname(d) = c]]

\* left.merge(right, left_on=left_on, right_on=right_on, how='left'): every
\* left row, in left order, once per matching right row in right order, and
\* once with NaN in the right-hand columns when no right row matches.
Merge(left, right, right_columns, left_on, right_on) ==
    LET n == Len(left_on)
        match(l, r) == \A k \in 1..n : l[left_on[k]] = r[right_on[k]]
        unmatched(l) == [c \in right_columns |->
                            IF \E k \in 1..n : right_on[k] = c /\ left_on[k] = c
                            THEN l[c] ELSE NaN]
        joined(l) ==
            LET hits == SelectSeq(right, LAMBDA r : match(l, r))
            IN  IF hits = << >>
                THEN << MergeRow(l, unmatched(l), left_on, right_on) >>
                ELSE [j \in 1..Len(hits) |->
                         MergeRow(l, hits[j], left_on, right_on)]
        RECURSIVE upto(_)
        upto(i) == IF i = 0 THEN << >>
                   ELSE upto(i - 1) \o joined(left[i])
    IN  upto(Len(left))

(***************************************************************************)
(* 2. Normalization (lines 68-144).                                        *)
(***************************************************************************)

\* A. Retailer table: distinct (retailer_id, retailer) pairs.
DimRetailer(df) ==
    Rename(DropDuplicates(Select(df, {"retailer_id", "retailer"}),
                          {"retailer_id", "retailer"}),
           "retailer", "retailer_name")

\* B. Region table.
DimRegion(df) ==
    Rename(AssignId(DropDuplicates(Select(df, {"region"}), {"region"}),
                    "region_id"),
           "region", "region_name")

\* C. State table: distinct (state, region) pairs, the region resolved to
\* its region_id.
DimState(df, region) ==
    LET prep == Merge(DropDuplicates(Select(df, {"state", "region"}),
                                     {"state", "region"}),
                      region, {"region_name", "region_id"},
                      <<"region">>, <<"region_name">>)
    IN  Rename(AssignId(DropDuplicates(Select(prep, {"state", "region_id"}),
                                       {"state", "region_id"}),
                        "state_id"),
               "state", "state_name")

\* D. City table: distinct (city, state) pairs merged with the state table on
\* the state name alone.
DimCity(df, state) ==
    LET prep == Merge(DropDuplicates(Select(df, {"city", "state"}),
                                     {"city", "state"}),
                      state, {"state_name", "region_id", "state_id"},
                      <<"state">>, <<"state_name">>)
    IN  Rename(AssignId(DropDuplicates(Select(prep, {"city", "state_id"}),
                                       {"city", "state_id"}),
                        "city_id"),
               "city", "city_name")

\* DimProduct with drop_duplicates() lacking subset=['product'].
DimProductAllColumns(df) ==
    Rename(AssignId(DropDuplicates(Select(df, {"product", "price_per_unit"}),
                                   {"product", "price_per_unit"}),
                    "product_id"),
           "product", "product_name")

\* E. Product table: de-duplicated on the product name alone.
DimProduct(df) ==
    Rename(AssignId(DropDuplicates(Select(df, {"product", "price_per_unit"}),
                                   {"product"}),
                    "product_id"),
           "product", "product_name")

\* F. Sales method table.
DimSalesMethod(df) ==
    Rename(AssignId(DropDuplicates(Select(df, {"sales_method"}),
                                   {"sales_method"}),
                    "sales_method_id"),
           "sales_method", "method_name")

\* G. The joined frame fact_df (lines 110-119).
FactDf(df, state, city, product, sales_method) ==
    LET s1 == Merge(df, state, {"state_name", "region_id", "state_id"},
                    <<"state">>, <<"state_name">>)
        s2 == Merge(s1, city, {"city_name", "state_id", "city_id"},
                    <<"city", "state_id">>, <<"city_name", "state_id">>)
        s3 == Merge(s2, product,
                    {"product_name", "price_per_unit", "product_id"},
                    <<"product">>, <<"product_name">>)
    IN  Merge(s3, sales_method, {"method_name", "sales_method_id"},
              <<"sales_method">>, <<"method_name">>)

\* The columns of the fact table (lines 124-135).
FactColumns ==
    {"retailer_id", "invoice_date", "city_id", "product_id", "units_sold",
     "total_sales", "operating_profit", "operating_margin",
     "sales_method_id", "region_id"}

\* The fact table (lines 124-144): the selected columns of fact_df, and
\* transaction_id = index + 1 on the index of the merged frame.
FactTable(joined) ==
    AssignId(Select(joined, FactColumns), "transaction_id")

(***************************************************************************)
(* 3. Loading to the database (lines 148-189).                             *)
(***************************************************************************)

\* LoadOrder with the fact table loaded before the dimensions.
LoadOrderFactFirst ==
    <<"sales_transaction", "retailer", "region", "state", "city", "product",
      "sales_method">>

\* The load_table calls of lines 167-187, in program order.
LoadOrder ==
    <<"retailer", "region", "state", "city", "product", "sales_method",
      "sales_transaction">>

TableNames == {LoadOrder[i] : i \in 1..Len(LoadOrder)}

\* What processed.<table> holds before the first run: rows of an earlier
\* load of some other input.
PriorContents == [t \in TableNames |-> << [stale |-> t] >>]

\* ToSql with if_exists='append'.
ToSqlAppend(existing, dataframe) == existing \o dataframe

\* DataFrame.to_sql(name, if_exists='replace'): the table is dropped and
\* re-created from the frame; nothing of the existing rows survives.
ToSql(existing, dataframe) == dataframe

(***************************************************************************)
(* The run as a state machine.                                             *)
(***************************************************************************)
VARIABLES
    raw,              \* the rows of raw.sales_raw
    missing,          \* the required column raw.sales_raw lacks, or "none"
    db,               \* the tables of the processed schema
    pc,               \* "start", "read", "load", "done" or "failed"
    err,              \* the exception the run caught, or "none"
    df,               \* the frame read from raw.sales_raw
    dim_retailer, dim_region, dim_state, dim_city, dim_product,
    dim_sales_method, fact_df, fact_table,
    calls             \* the load_table calls of this run: table_name, ok

frames == <<dim_retailer, dim_region, dim_state, dim_city, dim_product,
            dim_sales_method, fact_df, fact_table>>

vars == <<raw, missing, db, pc, err, df, frames, calls>>

\* The frame passed to load_table for each table (lines 167-187).
Frame(t) ==
    CASE t = "retailer" -> dim_retailer
      [] t = "region" -> dim_region
      [] t = "state" -> dim_state
      [] t = "city" -> dim_city
      [] t = "product" -> dim_product
      [] t = "sales_method" -> dim_sales_method
      [] t = "sales_transaction" -> fact_table

Init ==
    /\ raw \in RecordSets
    /\ missing \in {"none"} \cup RequiredColumns
    /\ db = PriorContents
    /\ pc = "start"
    /\ err = "none"
    /\ df = << >>
    /\ dim_retailer = << >> /\ dim_region = << >> /\ dim_state = << >>
    /\ dim_city = << >> /\ dim_product = << >> /\ dim_sales_method = << >>
    /\ fact_df = << >> /\ fact_table = << >>
    /\ calls = << >>

\* Lines 33-66: connect, read raw.sales_raw, rename, coerce invoice_date.
\* df['invoice_date'] raises KeyError when that column is absent.
ReadRaw ==
    /\ pc = "start"
    /\ IF missing = "invoice_date"
       THEN pc' = "failed" /\ err' = "KeyError" /\ UNCHANGED df
       ELSE pc' = "read" /\ df' = raw /\ UNCHANGED err
    /\ UNCHANGED <<raw, missing, db, frames, calls>>

\* Lines 34-41: create_engine, connect or read_sql_table raises.
ReadRawFails ==
    /\ pc = "start"
    /\ pc' = "failed"
    /\ err' = "SQLAlchemyError"
    /\ UNCHANGED <<raw, missing, db, df, frames, calls>>

\* Lines 68-144: build the six dimension frames and the fact frame.  A
\* column selection raises KeyError when the column is absent.
Normalize ==
    /\ pc = "read"
    /\ IF missing # "none"
       THEN pc' = "failed" /\ err' = "KeyError" /\ UNCHANGED frames
       ELSE /\ dim_retailer' = DimRetailer(df)
            /\ dim_region' = DimRegion(df)
            /\ dim_state' = DimState(df, dim_region')
            /\ dim_city' = DimCity(df, dim_state')
            /\ dim_product' = DimProduct(df)
            /\ dim_sales_method' = DimSalesMethod(df)
            /\ fact_df' = FactDf(df, dim_state', dim_city', dim_product',
                                 dim_sales_method')
            /\ fact_table' = FactTable(fact_df')
            /\ pc' = "load"
            /\ UNCHANGED err
    /\ UNCHANGED <<raw, missing, db, df, calls>>

\* One load_table call (lines 152-163) of the sequence of lines 167-187; the
\* last one is followed by line 189.
LoadTable ==
    /\ pc = "load"
    /\ LET t == LoadOrder[Len(calls) + 1]
       IN  /\ db' = [db EXCEPT ![t] = ToSql(@, Frame(t))]
           /\ calls' = Append(calls, [table_name |-> t, ok |-> TRUE])
    /\ pc' = IF Len(calls) + 1 = Len(LoadOrder) THEN "done" ELSE "load"
    /\ UNCHANGED <<raw, missing, err, df, frames>>

\* to_sql raises: the sink rolls the table back and the exception reaches
\* the handler of line 191, so no later load_table call is made.
LoadTableFails ==
    /\ pc = "load"
    /\ calls' = Append(calls, [table_name |-> LoadOrder[Len(calls) + 1],
                               ok |-> FALSE])
    /\ pc' = "failed"
    /\ err' = "SQLAlchemyError"
    /\ UNCHANGED <<raw, missing, db, df, frames>>

\* The scheduler runs the task again (dag.py): a fresh call of
\* transform_data on the same raw table, with new locals.
Rerun ==
    /\ pc \in {"done", "failed"}
    /\ pc' = "start"
    /\ err' = "none"
    /\ df' = << >>
    /\ dim_retailer' = << >> /\ dim_region' = << >> /\ dim_state' = << >>
    /\ dim_city' = << >> /\ dim_product' = << >>
    /\ dim_sales_method' = << >>
    /\ fact_df' = << >> /\ fact_table' = << >>
    /\ calls' = << >>
    /\ UNCHANGED <<raw, missing, db>>

Next ==
    \/ ReadRaw
    \/ ReadRawFails
    \/ Normalize
    \/ LoadTable
    \/ LoadTableFails
    \/ Rerun

Spec == Init /\ [][Next]_vars

\* The frames of the run have been built (line 146 was reached).
Built == pc \in {"load", "done"} \/ (pc = "failed" /\ calls # << >>)

(***************************************************************************)
(* Properties.                                                             *)
(***************************************************************************)

\* The positions of the rows of a frame that carry value v in column c.
RowsWith(frame, c, v) == {i \in 1..Len(frame) : frame[i][c] = v}

\* The values column c takes in a frame.
Values(frame, c) == {frame[i][c] : i \in 1..Len(frame)}

\* The input has one state name under two different regions.
SharedStateName ==
    \E i, j \in 1..Len(df) :
        df[i].state = df[j].state /\ df[i].region # df[j].region

\* C1. Row-count preservation: with every natural key non-null, the
\* sales_transaction frame has exactly as many rows as the input.
RowCountPreserved == Built => Len(fact_table) = Len(df)

\* Without a state name shared by two regions the row count is preserved.
RowCountPreservedWhenScoped ==
    (Built /\ ~SharedStateName) => Len(fact_table) = Len(df)

\* The state row st is the state named s of the region named r.
IsStateOf(st, s, r) ==
    /\ st.state_name = s
    /\ \E g \in RowsWith(dim_region, "region_name", r) :
           dim_region[g].region_id = st.region_id

\* C2. Scoping correctness: a state name under two regions has one state row
\* per region, with distinct state_ids, and every city row points to the
\* state row of a (state, region) pair under which the city occurs in the
\* input.
ScopingCorrect ==
    Built =>
      /\ \A i \in 1..Len(df) :
           \E k \in 1..Len(dim_state) :
              /\ IsStateOf(dim_state[k], df[i].state, df[i].region)
              /\ \A m \in 1..Len(dim_state) :
                    IsStateOf(dim_state[m], df[i].state, df[i].region)
                       => m = k
      /\ \A a, b \in 1..Len(dim_state) :
           a # b => dim_state[a].state_id # dim_state[b].state_id
      /\ \A c \in 1..Len(dim_city) :
           \E i \in 1..Len(df) :
              /\ df[i].city = dim_city[c].city_name
              /\ \E k \in RowsWith(dim_state, "state_id", dim_city[c].state_id) :
                    IsStateOf(dim_state[k], df[i].state, df[i].region)

\* C3. Referential closure: every foreign key of every fact row is the key of
\* exactly one row of the table it refers to.
ReferentialClosure ==
    Built =>
      \A k \in 1..Len(fact_table) :
         /\ Cardinality(RowsWith(dim_retailer, "retailer_id",
                                 fact_table[k].retailer_id)) = 1
         /\ Cardinality(RowsWith(dim_city, "city_id",
                                 fact_table[k].city_id)) = 1
         /\ Cardinality(RowsWith(dim_product, "product_id",
                                 fact_table[k].product_id)) = 1
         /\ Cardinality(RowsWith(dim_sales_method, "sales_method_id",
                                 fact_table[k].sales_method_id)) = 1
         /\ Cardinality(RowsWith(dim_region, "region_id",
                                 fact_table[k].region_id)) = 1

\* The part of C3 other than the retailer key.
SurrogateKeysClosed ==
    Built =>
      \A k \in 1..Len(fact_table) :
         /\ Cardinality(RowsWith(dim_city, "city_id",
                                 fact_table[k].city_id)) = 1
         /\ Cardinality(RowsWith(dim_product, "product_id",
                                 fact_table[k].product_id)) = 1
         /\ Cardinality(RowsWith(dim_sales_method, "sales_method_id",
                                 fact_table[k].sales_method_id)) = 1
         /\ Cardinality(RowsWith(dim_region, "region_id",
                                 fact_table[k].region_id)) = 1

\* The key column of a frame takes each value of 1..K exactly once, and no
\* two rows agree on the natural key.
KeyedTable(frame, id, natural) ==
    /\ \A v \in 1..Len(frame) : Cardinality(RowsWith(frame, id, v)) = 1
    /\ \A i, j \in 1..Len(frame) :
          Project(frame[i], natural) = Project(frame[j], natural) => i = j

\* C4. Key uniqueness and contiguity of the five keyed dimension tables.
KeysUniqueContiguous ==
    Built =>
      /\ KeyedTable(dim_region, "region_id", {"region_name"})
      /\ KeyedTable(dim_state, "state_id", {"state_name", "region_id"})
      /\ KeyedTable(dim_city, "city_id", {"city_name", "state_id"})
      /\ KeyedTable(dim_product, "product_id", {"product_name"})
      /\ KeyedTable(dim_sales_method, "sales_method_id", {"method_name"})

\* C4 case: several rows per table, two states of one name among them.
KeysWitness ==
    /\ pc = "done"
    /\ Len(dim_region) = 2
    /\ Len(dim_state) = 2
    /\ dim_state[1].state_name = dim_state[2].state_name
    /\ Len(dim_city) >= 2

\* The seven tables a complete run on the record set leaves in the
\* destination.
Output(rows) ==
    LET region == DimRegion(rows)
        state == DimState(rows, region)
        city == DimCity(rows, state)
        product == DimProduct(rows)
        method == DimSalesMethod(rows)
    IN  [t \in TableNames |->
            CASE t = "retailer" -> DimRetailer(rows)
              [] t = "region" -> region
              [] t = "state" -> state
              [] t = "city" -> city
              [] t = "product" -> product
              [] t = "sales_method" -> method
              [] t = "sales_transaction" ->
                    FactTable(FactDf(rows, state, city, product, method))]

\* C5. Determinism/idempotence: a run that completes leaves in the
\* destination exactly the tables determined by the input, whatever the
\* destination held before; and once the destination holds them, no step of
\* a later run on the same input changes it.
Idempotent ==
    [][/\ pc' = "done" => db' = Output(raw)
       /\ db' # db => db # Output(raw)]_vars

\* C5 case: a second run is loading tables over the complete output of an
\* earlier run.
IdempotentWitness ==
    /\ pc = "load"
    /\ Len(calls) = 3
    /\ db = Output(raw)
    /\ Len(raw) = 2
    /\ raw[1] # raw[2]

\* C6. Transaction identifier: the i-th input row yields the fact row with
\* transaction_id i and that row's retailer_id, invoice_date and measures, and
\* the transaction_ids are exactly 1..N.
TransactionIdIsInputPosition ==
    Built =>
      /\ Values(fact_table, "transaction_id") = 1..Len(df)
      /\ \A i \in 1..Len(df) :
           \E k \in 1..Len(fact_table) :
              /\ fact_table[k].transaction_id = i
              /\ \A c \in {"retailer_id", "invoice_date", "units_sold",
                           "total_sales", "operating_profit",
                           "operating_margin"} :
                    fact_table[k][c] = df[i][c]
              /\ \A m \in 1..Len(fact_table) :
                    fact_table[m].transaction_id = i => m = k

\* The position of the first input row carrying the product name.
FirstRowOf(name) ==
    CHOOSE i \in RowsWith(df, "product", name) :
        \A j \in RowsWith(df, "product", name) : i <= j

\* C7. Product first-seen price: one product row per distinct product name,
\* priced as the first input row carrying the name; with every column
\* present the run fails only on a database error.
ProductFirstSeenPrice ==
    /\ Built =>
         /\ Values(dim_product, "product_name") = Values(df, "product")
         /\ Len(dim_product) = Cardinality(Values(df, "product"))
         /\ \A k \in 1..Len(dim_product) :
               dim_product[k].price_per_unit =
                  df[FirstRowOf(dim_product[k].product_name)].price_per_unit
    /\ (pc = "failed" /\ missing = "none") => err = "SQLAlchemyError"

\* C7 case: one product name at price 55 first and at price 50 second.
ProductWitness ==
    /\ Built
    /\ Len(df) = 2
    /\ df[1].product = df[2].product
    /\ df[1].price_per_unit = 55
    /\ df[2].price_per_unit = 50

\* C8. Schema mismatch aborts before any write: an empty input, or an input
\* lacking a required column, leads to no load_table call and leaves the
\* destination as it was.
NoWriteOnSchemaMismatch ==
    (raw = << >> \/ missing # "none") =>
        /\ calls = << >>
        /\ db = PriorContents
        /\ pc \notin {"load", "done"}

\* The part of C8 about an absent column.
NoWriteOnMissingColumn ==
    missing # "none" =>
        /\ calls = << >>
        /\ db = PriorContents
        /\ pc \notin {"load", "done"}

\* The positions of the completed load_table calls for table t.
Written(t) ==
    {i \in 1..Len(calls) : calls[i].table_name = t /\ calls[i].ok}

Dimensions == TableNames \ {"sales_transaction"}

\* C9. Sink write ordering: at most one load_table call per table in a run;
\* sales_transaction is written only after all six dimension writes have
\* completed, and city only after state; a run that completes has written
\* each table exactly once; after a failed dimension write no
\* sales_transaction write is made.
SinkWriteOrdering ==
    /\ \A i, j \in 1..Len(calls) :
          calls[i].table_name = calls[j].table_name => i = j
    /\ \A i \in 1..Len(calls) :
          calls[i].table_name = "sales_transaction" =>
             \A d \in Dimensions : \E j \in Written(d) : j < i
    /\ \A i \in 1..Len(calls) :
          calls[i].table_name = "city" => \E j \in Written("state") : j < i
    /\ pc = "done" => \A t \in TableNames : Cardinality(Written(t)) = 1
    /\ (\E i \in 1..Len(calls) :
           calls[i].table_name \in Dimensions /\ ~calls[i].ok)
          => \A i \in 1..Len(calls) : calls[i].table_name # "sales_transaction"

\* C9 case: a run of a two-row input that completed.
SinkWitness ==
    /\ pc = "done"
    /\ Len(calls) = 7
    /\ Len(df) = 2

\* C10. Foreign-key correctness of the fact join: the region_id of a fact row
\* is the key of the region named in its input row, and its city_id the key
\* of a city row with the input row's city name under the state row of the
\* input row's state and region.  fact_df carries the input row's columns
\* next to the keys, row for row with fact_table.
FactJoinCorrect ==
    Built =>
      \A k \in 1..Len(fact_table) :
         /\ \E g \in RowsWith(dim_region, "region_id", fact_table[k].region_id) :
               dim_region[g].region_name = fact_df[k].region
         /\ \E c \in RowsWith(dim_city, "city_id", fact_table[k].city_id) :
               /\ dim_city[c].city_name = fact_df[k].city
               /\ \E s \in RowsWith(dim_state, "state_id", dim_city[c].state_id) :
                     IsStateOf(dim_state[s], fact_df[k].state,
                               fact_df[k].region)

====
